---- MODULE Spec2Model ----
(***************************************************************************)
(* Step-wise executor of tool_agent_demo: AsyncExecutor (api/executor.py)  *)
(* and the HTTP routes that drive it (api/routes.py).                      *)
(*                                                                         *)
(* One executor wrapper serves one sandbox interpreter (a Jupyter kernel). *)
(* The interpreter's namespace is shared by every script the executor      *)
(* ships: the names workflow_iterator, final_result and current_kernel_id  *)
(* are globals of that namespace.                                          *)
(***************************************************************************)
EXTENDS Integers, Sequences, FiniteSets, TLC

\* ------------------------------------------------------------------ bounds

\* the counter wraps at this value (executor.py:263)
KernelCounterMod == 100
\* number of distinct random three-letter suffixes drawn (26^3 in the code)
NumSuffix == 1
\* Spec: starts are accepted while the kernel counter is below this bound
MaxCounter == 2
\* SpecWrap: starts are accepted while the active map stays within this size
MaxActiveWrap == 2
\* SpecSingle: starts are accepted while the kernel counter is below this bound
MaxSingleCounter == 1
\* SpecSingle: a session is continued while it was given fewer responses
MaxDrawn == 3
\* SpecTool: a tool is called with at most this many positional arguments
MaxArgs == 2
\* SpecTool, SpecResult: number of distinct plain values
NumVals == 1
MaxStmts == 3
MaxCount == 2

Suffixes == 1..NumSuffix

\* ------------------------------------------------------------------ values

\* Python's None
None == <<>>

\* a generator object holding the elements still to be drawn, and the state of
\* the name workflow_iterator in a namespace that never bound it
Iterator(elems) == [bound |-> TRUE, rest |-> elems]
Unbound == [bound |-> FALSE, rest |-> <<>>]

\* f"k{counter:02d}" + suffix: two decimal digits, then the random letters
Format02d(c) == <<c \div 10, c % 10>>
KernelId(c, s) == Format02d(c) \o <<s>>

\* Elements a workflow generator yields: a plain value, Ok(v) or Err(e)
Plain(m, i) == [kind |-> "plain", val |-> <<m, i>>]
OkR(m, i) == [kind |-> "ok", val |-> <<m, i>>]
ErrR(m, i) == [kind |-> "err", val |-> <<m, i>>]

\* Result.is_ok / is_err / unwrap on a single-valued Result
is_ok(r) == r.kind = "ok"
is_err(r) == ~is_ok(r)
unwrap(r) == r.val
isinstance_Result(e) == e.kind \in {"ok", "err"}

\* The workflows of the agent module loaded into the sandbox
Methods == {"steps", "okfirst", "errmid"}
\* further workflows, run to completion only
DrainMethods == Methods \cup {"plains", "twook", "okerr"}
WorkflowBody(m) ==
    CASE m = "steps" -> <<Plain(m, 1), Plain(m, 2), OkR(m, 3)>>
      [] m = "okfirst" -> <<OkR(m, 1), Plain(m, 2)>>
      [] m = "errmid" -> <<Plain(m, 1), ErrR(m, 2), Plain(m, 3)>>
      [] m = "plains" -> <<Plain(m, 1), Plain(m, 2)>>
      [] m = "twook" -> <<OkR(m, 1), Plain(m, 2), OkR(m, 3), Plain(m, 4)>>
      [] m = "okerr" -> <<OkR(m, 1), ErrR(m, 2), OkR(m, 3)>>

\* The tools of the agent module: what the method returns (a Result or a
\* plain value), or the exception it raises
Tools == {"oktool", "errtool", "plaintool", "raisetool"}
ToolReturn(t) ==
    CASE t = "oktool" -> OkR(t, 1)
      [] t = "errtool" -> ErrR(t, 1)
      [] t = "plaintool" -> Plain(t, 1)
      [] t = "raisetool" -> [kind |-> "raise", val |-> <<t, 1>>]

\* (module_path, var_name, method_name, args, kwargs)
Params(m) == <<"mod", "Agent", m, "args", "kwargs">>
StartParams == {Params(m) : m \in Methods}
\* what a caller of execute() may re-assert on a continuation: the tuple p
\* with one of its five components replaced
Differing(p) == {[p EXCEPT ![i] = "other"] : i \in 1..5}

\* ------------------------------------------------------------------ Result

\* Python values of the agent library: a str, an exception object, a Result
\* with its four slots (result.py:13-16); a tuple or list is a sequence, and
\* None is the empty one
Str(s) == [t |-> "str", v |-> s]
Exc(e) == [t |-> "Exception", v |-> e]
Result(value, error, combined_values, combined_errors) ==
    [t |-> "Result", value |-> value, error |-> error,
     combined_values |-> combined_values,
     combined_errors |-> combined_errors]
isinstance(v, cls) == v # None /\ v.t = cls

\* how a call ends: with a returned value or with a raised exception
Returned(v) == [raised |-> FALSE, val |-> v]
Raised(e) == [raised |-> TRUE, val |-> e]

\* Result.is_ok / Result.is_err
Result_is_ok(self) ==
    /\ self.error = None
    /\ (self.combined_errors = None \/ Len(self.combined_errors) = 0)
Result_is_err(self) == ~Result_is_ok(self)

\* Result.__or__ carrying the left operand's single error over
Result_or_KeepsError(self, other) ==
    LET values == (IF self.combined_values # None THEN self.combined_values
                   ELSE IF self.value # None THEN <<self.value>> ELSE <<>>)
                  \o (IF other.combined_values # None
                      THEN other.combined_values
                      ELSE IF other.value # None THEN <<other.value>>
                      ELSE <<>>)
        errors == (IF self.combined_errors # None THEN self.combined_errors
                   ELSE IF self.error # None THEN <<self.error>> ELSE <<>>)
                  \o (IF other.combined_errors # None
                      THEN other.combined_errors
                      ELSE IF other.error # None THEN <<other.error>>
                      ELSE <<>>)
    IN Result(None, self.error,
              IF values # <<>> THEN values ELSE None,
              IF errors # <<>> THEN errors ELSE None)

\* Result.__or__ appending the right operand's tuple as one value
Result_or_AppendsTuple(self, other) ==
    LET values == (IF self.combined_values # None THEN self.combined_values
                   ELSE IF self.value # None THEN <<self.value>> ELSE <<>>)
                  \o (IF other.combined_values # None
                      THEN <<other.combined_values>>
                      ELSE IF other.value # None THEN <<other.value>>
                      ELSE <<>>)
        errors == (IF self.combined_errors # None THEN self.combined_errors
                   ELSE IF self.error # None THEN <<self.error>> ELSE <<>>)
                  \o (IF other.combined_errors # None
                      THEN other.combined_errors
                      ELSE IF other.error # None THEN <<other.error>>
                      ELSE <<>>)
    IN Result(None, None,
              IF values # <<>> THEN values ELSE None,
              IF errors # <<>> THEN errors ELSE None)

\* Result.__or__ reading only the single slots of the left operand
Result_or_DropsOwnCombined(self, other) ==
    LET values == (IF self.value # None THEN <<self.value>> ELSE <<>>)
                  \o (IF other.combined_values # None
                      THEN other.combined_values
                      ELSE IF other.value # None THEN <<other.value>>
                      ELSE <<>>)
        errors == (IF self.error # None THEN <<self.error>> ELSE <<>>)
                  \o (IF other.combined_errors # None
                      THEN other.combined_errors
                      ELSE IF other.error # None THEN <<other.error>>
                      ELSE <<>>)
    IN Result(None, None,
              IF values # <<>> THEN values ELSE None,
              IF errors # <<>> THEN errors ELSE None)

\* Result.__or__
Result_or(self, other) ==
    LET values0 == IF self.combined_values # None
                   THEN self.combined_values
                   ELSE IF self.value # None THEN <<self.value>> ELSE <<>>
        errors0 == IF self.combined_errors # None
                   THEN self.combined_errors
                   ELSE IF self.error # None THEN <<self.error>> ELSE <<>>
        values == IF other.combined_values # None
                  THEN values0 \o other.combined_values
                  ELSE IF other.value # None
                  THEN Append(values0, other.value) ELSE values0
        errors == IF other.combined_errors # None
                  THEN errors0 \o other.combined_errors
                  ELSE IF other.error # None
                  THEN Append(errors0, other.error) ELSE errors0
    IN Result(None, None,
              IF values # <<>> THEN values ELSE None,
              IF errors # <<>> THEN errors ELSE None)

\* Result.unwrap
Result_unwrap(self) ==
    IF Result_is_err(self)
    THEN IF self.combined_errors # None /\ Len(self.combined_errors) > 0
         THEN Raised([t |-> "MultipleErrors", v |-> self.combined_errors])
         ELSE IF self.error # None
         THEN Raised(self.error)
         ELSE Raised(Exc("Unknown error"))
    ELSE IF self.combined_values # None
         THEN Returned(self.combined_values)
         ELSE Returned(self.value)

\* ------------------------------------------------------------------ tools

\* The raw callables of the helper agent (tests/test_helpers.py:7-17) and how
\* Python binds the call func(self, *args, **kwargs) to their parameters; a
\* call that does not bind raises TypeError.  kwargs is the sequence of the
\* (key, value) pairs in call order.  `self` is the agent instance as far as
\* a tool can change it: counter_tool, a tool with a side effect, counts its
\* calls in self.n and returns the count.
Funcs == {"success_tool", "error_tool", "concat_tool"}
AgentTools == Funcs \cup {"counter_tool"}
Keys == {"a", "b"}
NewAgent == [n |-> 0]
ParamsOf(func) == IF func = "concat_tool" THEN <<"a", "b">> ELSE <<>>
KwKeys(kwargs) == {kwargs[i][1] : i \in 1..Len(kwargs)}
KwValue(kwargs, key) ==
    kwargs[CHOOSE i \in 1..Len(kwargs) : kwargs[i][1] = key][2]
Binds(func, args, kwargs) ==
    LET params == ParamsOf(func)
    IN /\ Len(args) <= Len(params)
       /\ \A i \in 1..Len(params) :
             IF i <= Len(args)
             THEN params[i] \notin KwKeys(kwargs)
             ELSE params[i] \in KwKeys(kwargs)
       /\ \A key \in KwKeys(kwargs) :
             \E i \in 1..Len(params) : params[i] = key
Bound(func, args, kwargs) ==
    [i \in 1..Len(ParamsOf(func)) |->
        IF i <= Len(args) THEN args[i]
        ELSE KwValue(kwargs, ParamsOf(func)[i])]
\* a call's end together with the instance it leaves behind
After(self, end) == [raised |-> end.raised, val |-> end.val, self |-> self]
RawCall(self, func, args, kwargs) ==
    IF ~Binds(func, args, kwargs)
    THEN After(self, Raised([t |-> "TypeError", v |-> func]))
    ELSE CASE func = "success_tool" -> After(self, Returned(Str("success")))
           [] func = "error_tool" -> After(self, Raised(Exc("test error")))
           [] func = "concat_tool" ->
                After(self, Returned([t |-> "fstr",
                                      v |-> Bound(func, args, kwargs)]))
           [] func = "counter_tool" ->
                After([self EXCEPT !.n = @ + 1], Returned([t |-> "int", v |-> self.n + 1]))

\* args.index(arg): the first position whose value equals arg
index(args, arg) ==
    CHOOSE i \in 1..Len(args) :
        args[i] = arg /\ \A j \in 1..(i - 1) : args[j] # arg

\* The loop of agent.py:106-111 from position i of the tuple the call was
\* given (`orig`, which the for statement keeps iterating), `args` being the
\* tuple the name is bound to by now
RECURSIVE UnwrapArgs(_, _, _)
UnwrapArgs(orig, i, args) ==
    IF i > Len(orig)
    THEN [short |-> FALSE, ret |-> None, args |-> args]
    ELSE LET arg == orig[i]
         IN IF isinstance(arg, "Result")
            THEN IF Result_is_err(arg)
                 THEN [short |-> TRUE, ret |-> arg, args |-> args]
                 ELSE UnwrapArgs(orig, i + 1,
                          [args EXCEPT ![index(args, arg)] =
                                           Result_unwrap(arg).val])
            ELSE UnwrapArgs(orig, i + 1, args)

\* The loop of agent.py:113-117 over kwargs.items() from position i
RECURSIVE UnwrapKwargs(_, _)
UnwrapKwargs(kwargs, i) ==
    IF i > Len(kwargs)
    THEN [short |-> FALSE, ret |-> None, kwargs |-> kwargs]
    ELSE LET value == kwargs[i][2]
         IN IF isinstance(value, "Result")
            THEN IF Result_is_err(value)
                 THEN [short |-> TRUE, ret |-> value, kwargs |-> kwargs]
                 ELSE UnwrapKwargs(
                          [kwargs EXCEPT ![i] =
                              <<kwargs[i][1], Result_unwrap(value).val>>],
                          i + 1)
            ELSE UnwrapKwargs(kwargs, i + 1)

\* what a run of the wrapper did: how it ended, the raw call it made and the
\* instance afterwards
Ended(outcome, invoked, raw_args, raw_kwargs, self) ==
    [outcome |-> outcome, invoked |-> invoked, raw_args |-> raw_args,
     raw_kwargs |-> raw_kwargs, self |-> self]

\* the body of the try statement of Agent.tool.wrapper (agent.py:105-120)
wrapper_try(self, func, args, kwargs) ==
    LET ua == UnwrapArgs(args, 1, args)
        uk == UnwrapKwargs(kwargs, 1)
    IN IF ua.short
       THEN Ended(Returned(ua.ret), FALSE, None, None, self)
       ELSE IF uk.short
       THEN Ended(Returned(uk.ret), FALSE, None, None, self)
       ELSE LET result == RawCall(self, func, ua.args, uk.kwargs)
            IN IF result.raised
               THEN Ended(Raised(result.val), TRUE, ua.args, uk.kwargs,
                          result.self)
               ELSE Ended(Returned(Result(result.val, None, None, None)),
                          TRUE, ua.args, uk.kwargs, result.self)

\* wrapper without its except clause
wrapper_Reraises(self, func, args, kwargs) ==
    wrapper_try(self, func, args, kwargs)

\* Agent.tool.wrapper: `except Exception as e: return Result(error=e)`
wrapper(self, func, args, kwargs) ==
    LET tried == wrapper_try(self, func, args, kwargs)
    IN IF tried.outcome.raised
       THEN [tried EXCEPT
               !.outcome = Returned(Result(None, tried.outcome.val,
                                           None, None))]
       ELSE tried

\* ------------------------------------------------------------------ state

VARIABLES
    executors,          \* routes/executor.py: ids of the loaded wrappers
    executor_type,      \* AsyncExecutor.executor_type
    initialized,        \* AsyncExecutor.initialized (km and kc follow it)
    active_kernels,     \* AsyncExecutor.active_kernels: kernel_id -> params
    kernel_counter,     \* AsyncExecutor._kernel_counter
    workflow_iterator,  \* sandbox global: the live generator, or Unbound
    final_result,       \* sandbox global
    current_kernel_id,  \* sandbox global
    response,           \* the last request and what it returned or raised
    input,              \* the values a library call is made with
    call,               \* the last library call and how it ended
    agent,              \* the Agent instance workflows are run and edited on
    drawn               \* history: kernel_id -> responses its session was given
                        \* (kept for the active sessions and the last request)

vars == <<executors, executor_type, initialized, active_kernels, kernel_counter,
          workflow_iterator, final_result, current_kernel_id, response,
          input, call, agent, drawn>>

\* the executor and its sandbox as one value
State == [initialized |-> initialized,
          active_kernels |-> active_kernels,
          kernel_counter |-> kernel_counter,
          workflow_iterator |-> workflow_iterator,
          final_result |-> final_result,
          current_kernel_id |-> current_kernel_id]

EmptyMap == [k \in {} |-> None]

\* dict assignment and del
DictSet(d, k, v) == [x \in (DOMAIN d) \cup {k} |-> IF x = k THEN v ELSE d[x]]
DictDel(d, k) == [x \in (DOMAIN d) \ {k} |-> d[x]]

\* ------------------------------------------------------------------ sandbox

\* what a script printed: the keys of the JSON object and their values
NoOutput == [keys |-> {}, result |-> None, error |-> None, kernel_id |-> None]
ErrorOutput(e) ==
    [keys |-> {"error"}, result |-> None, error |-> e, kernel_id |-> None]
ResultOutput(v, k) ==
    [keys |-> {"result", "kernel_id"}, result |-> v, error |-> None,
     kernel_id |-> k]

\* One run of a script in the sandbox: the namespace afterwards, the JSON it
\* printed and the status of the shell reply.  sys.exit raises SystemExit in
\* the interpreter, which the kernel reports as reply status "error".
Ran(st, out, reply) == [st |-> st, output |-> out, reply |-> reply]

\* The per-element rules shared by the bootstrap script (executor.py:171-184)
\* and the continuation script (executor.py:116-126); `st` already has the
\* element drawn from workflow_iterator.
HandleElement(st, result) ==
    IF isinstance_Result(result)
    THEN IF is_err(result)
         THEN Ran(st, ErrorOutput(result.val), "error")
         ELSE Ran([st EXCEPT !.final_result = result],
                  ResultOutput(unwrap(result), None), "ok")
    ELSE Ran(st, ResultOutput(result.val, st.current_kernel_id), "ok")

\* The continuation script (executor.py:111-127):
\* result = next(workflow_iterator, None), then the per-element rules.
ContinueScript(st) ==
    IF st.workflow_iterator.rest = <<>>
    THEN Ran(st,
             ResultOutput(IF st.final_result # None
                          THEN unwrap(st.final_result) ELSE None, None),
             "ok")
    ELSE HandleElement(
             [st EXCEPT !.workflow_iterator =
                            Iterator(Tail(st.workflow_iterator.rest))],
             Head(st.workflow_iterator.rest))

\* The bootstrap script for a workflow with step_by_step (executor.py:130-184):
\* binds current_kernel_id, workflow_iterator and final_result in the shared
\* namespace, then draws the first element.
StartScript(st, p, sfx) ==
    LET body == WorkflowBody(p[3])
        st1 == [st EXCEPT
                  !.current_kernel_id = KernelId(st.kernel_counter, sfx),
                  !.workflow_iterator = Iterator(body),
                  !.final_result = None]
    IN IF body = <<>>
       THEN Ran(st1, ErrorOutput(None), "error")
       ELSE HandleElement(
                [st1 EXCEPT !.workflow_iterator = Iterator(Tail(body))],
                Head(body))

\* what the single-shot scripts print: {'result': v} and {'results': [...]}
ValueOutput(v) ==
    [keys |-> {"result"}, result |-> v, error |-> None, kernel_id |-> None]
ListOutput(l) ==
    [keys |-> {"results"}, result |-> l, error |-> None, kernel_id |-> None]

\* the loop of executor.py:187-195 over the elements still in the generator:
\* stops at the first err Result, else keeps the last Result and collects the
\* plain elements
RECURSIVE Drain(_, _, _)
Drain(rest, final, results) ==
    IF rest = <<>>
    THEN [rest |-> rest, final |-> final, results |-> results,
          err |-> None, failed |-> FALSE]
    ELSE LET result == Head(rest)
         IN IF isinstance_Result(result)
            THEN IF is_err(result)
                 THEN [rest |-> Tail(rest), final |-> final,
                       results |-> results, err |-> result.val,
                       failed |-> TRUE]
                 ELSE Drain(Tail(rest), result, results)
            ELSE Drain(Tail(rest), final, Append(results, result.val))

\* DrainScript printing the collected intermediates whenever there are any
DrainScript_PrefersList(st, p, sfx) ==
    LET d == Drain(WorkflowBody(p[3]), None, <<>>)
        st1 == [st EXCEPT
                  !.current_kernel_id = KernelId(st.kernel_counter, sfx),
                  !.workflow_iterator = Iterator(d.rest),
                  !.final_result = d.final]
    IN IF d.failed
       THEN Ran(st1, ErrorOutput(d.err), "error")
       ELSE IF d.results # <<>>
       THEN Ran(st1, ListOutput(d.results), "ok")
       ELSE Ran(st1, ValueOutput(unwrap(d.final)), "ok")

\* The bootstrap script for a workflow without step_by_step
\* (executor.py:130-166, 185-200): binds the same three globals, then drains
\* the generator.
DrainScript(st, p, sfx) ==
    LET d == Drain(WorkflowBody(p[3]), None, <<>>)
        st1 == [st EXCEPT
                  !.current_kernel_id = KernelId(st.kernel_counter, sfx),
                  !.workflow_iterator = Iterator(d.rest),
                  !.final_result = d.final]
    IN IF d.failed
       THEN Ran(st1, ErrorOutput(d.err), "error")
       ELSE IF d.final # None
       THEN Ran(st1, ValueOutput(unwrap(d.final)), "ok")
       ELSE Ran(st1, ListOutput(d.results), "ok")

\* The bootstrap script for a tool (executor.py:130-160, 201-213); an
\* exception of the method is printed as an error before sys.exit(1)
ToolScript(st, p) ==
    LET result == ToolReturn(p[3])
    IN IF result.kind = "raise"
       THEN Ran(st, ErrorOutput(result.val), "error")
       ELSE IF isinstance_Result(result)
       THEN IF is_err(result)
            THEN Ran(st, ErrorOutput(result.val), "error")
            ELSE Ran(st, ValueOutput(unwrap(result)), "ok")
       ELSE Ran(st, ValueOutput(result.val), "ok")

\* ------------------------------------------------------------------ executor

\* AsyncExecutor._cleanup: the interpreter is shut down, its namespace is lost
cleanup(st) ==
    IF st.initialized
    THEN [st EXCEPT !.initialized = FALSE,
                    !.workflow_iterator = Unbound,
                    !.final_result = None,
                    !.current_kernel_id = None]
    ELSE st

\* AsyncExecutor._init_kernel: `ok` is whether the interpreter comes up
init_kernel(st, ok) ==
    IF st.initialized
    THEN [st |-> st, raised |-> FALSE]
    ELSE IF ok
         THEN [st |-> [st EXCEPT !.initialized = TRUE], raised |-> FALSE]
         ELSE [st |-> cleanup(st), raised |-> TRUE]

\* what execute() hands back: the executor afterwards, the HTTP status
\* (200 for a returned output) and the output
Done(st, status, out) == [st |-> st, status |-> status, output |-> out]

\* the comparison of the stored tuple with the caller's (executor.py:101-104)
ParamsMismatch(stored_info, p) ==
    \/ stored_info[1] # p[1]
    \/ stored_info[2] # p[2]
    \/ stored_info[3] # p[3]
    \/ stored_info[4] # p[4]
    \/ stored_info[5] # p[5]

\* Bookkeep with the counter advanced by every start
Bookkeep_CountsEveryStart(st, p, step_by_step, kernel_id, output) ==
    LET st1 == IF kernel_id = None
               THEN [st EXCEPT
                       !.kernel_counter =
                           (st.kernel_counter + 1) % KernelCounterMod]
               ELSE st
    IN IF kernel_id # None
          /\ ("kernel_id" \notin output.keys \/ output.kernel_id = None)
       THEN [st1 EXCEPT
               !.active_kernels = DictDel(st1.active_kernels, kernel_id)]
       ELSE st1

\* executor.py:257-269: store the kernel info of a step-by-step start, drop
\* the entry of a continuation whose output has no (or a null) kernel_id
Bookkeep(st, p, step_by_step, kernel_id, output) ==
    LET st1 == IF step_by_step /\ kernel_id = None
                  /\ "kernel_id" \in output.keys
               THEN [st EXCEPT
                       !.active_kernels =
                           DictSet(st.active_kernels, output.kernel_id, p),
                       !.kernel_counter =
                           (st.kernel_counter + 1) % KernelCounterMod]
               ELSE st
    IN IF kernel_id # None
          /\ ("kernel_id" \notin output.keys \/ output.kernel_id = None)
       THEN [st1 EXCEPT
               !.active_kernels = DictDel(st1.active_kernels, kernel_id)]
       ELSE st1

\* executor.py:215-277: ship the script, read the output and the reply.
\* runOk = FALSE stands for every way the exchange fails (an error message on
\* the iopub channel, a reply with status error and no output, the 30 s reply
\* timeout); a continuation in a namespace without workflow_iterator raises
\* NameError in the sandbox, which is such an error message.
RunScript(st, p, step_by_step, kernel_id, sfx, runOk) ==
    IF ~runOk \/ (kernel_id # None /\ ~st.workflow_iterator.bound)
    THEN Done(cleanup(st), 500, NoOutput)
    ELSE LET ran == IF kernel_id # None
                    THEN ContinueScript(st)
                    ELSE StartScript(st, p, sfx)
         IN IF ran.reply = "error"
            THEN IF "error" \in ran.output.keys
                 THEN Done(ran.st, 200, ran.output)
                 ELSE Done(cleanup(ran.st), 500, NoOutput)
            ELSE Done(Bookkeep(ran.st, p, step_by_step, kernel_id, ran.output),
                      200, ran.output)

\* AsyncExecutor.execute for a workflow on an executor of type "env"
execute(st, p, step_by_step, kernel_id, sfx, initOk, runOk) ==
    LET init == init_kernel(st, initOk)
        st1 == init.st
    IN IF init.raised
       THEN Done(st1, 500, NoOutput)
       ELSE IF kernel_id # None /\ kernel_id \notin DOMAIN st1.active_kernels
       THEN Done(st1, 404, NoOutput)
       ELSE IF kernel_id # None
               /\ ParamsMismatch(st1.active_kernels[kernel_id], p)
       THEN Done(st1, 400, NoOutput)
       ELSE RunScript(st1, p, step_by_step, kernel_id, sfx, runOk)

\* executor.py:215-277 for a script that starts a tool or a workflow without
\* step_by_step (kernel_id is None)
RunSingle(st, method_type, p, sfx, runOk) ==
    IF ~runOk
    THEN Done(cleanup(st), 500, NoOutput)
    ELSE LET ran == IF method_type = "workflows"
                    THEN DrainScript(st, p, sfx)
                    ELSE ToolScript(st, p)
         IN IF ran.reply = "error"
            THEN IF "error" \in ran.output.keys
                 THEN Done(ran.st, 200, ran.output)
                 ELSE Done(cleanup(ran.st), 500, NoOutput)
            ELSE Done(Bookkeep(ran.st, p, FALSE, None, ran.output),
                      200, ran.output)

\* execute_single with the interpreter brought up before the type is looked at
execute_single_InitFirst(type, st, method_type, p, sfx, initOk, runOk) ==
    LET init == init_kernel(st, initOk)
    IN IF init.raised
       THEN Done(init.st, 500, NoOutput)
       ELSE IF type = "env"
       THEN RunSingle(init.st, method_type, p, sfx, runOk)
       ELSE Done(init.st, 400, NoOutput)

\* AsyncExecutor.execute with step_by_step left at its default and no
\* kernel_id, on an executor of any type (executor.py:82-90, 278-282)
execute_single(type, st, method_type, p, sfx, initOk, runOk) ==
    IF type = "env"
    THEN LET init == init_kernel(st, initOk)
         IN IF init.raised
            THEN Done(init.st, 500, NoOutput)
            ELSE RunSingle(init.st, method_type, p, sfx, runOk)
    ELSE Done(st, 400, NoOutput)

\* the executor's variables after a call, and the record of the call:
\* `session` is the kernel the request is about (the id allocated by a start,
\* the id presented by a continue or cancel)
Apply(op, kernel_id, session, p, done) ==
    /\ executor_type' = executor_type
    /\ UNCHANGED <<input, call, agent>>
    /\ initialized' = done.st.initialized
    /\ active_kernels' = done.st.active_kernels
    /\ kernel_counter' = done.st.kernel_counter
    /\ workflow_iterator' = done.st.workflow_iterator
    /\ final_result' = done.st.final_result
    /\ current_kernel_id' = done.st.current_kernel_id
    /\ response' = [op |-> op, kernel_id |-> kernel_id, session |-> session,
                    params |-> p, status |-> done.status,
                    output |-> done.output]
    /\ LET count == IF done.status = 200 /\ op = "start"
                     THEN DictSet(drawn, session, 1)
                     ELSE IF done.status = 200 /\ op = "continue"
                     THEN DictSet(drawn, session, drawn[session] + 1)
                     ELSE drawn
           keep == (DOMAIN count)
                       \cap ((DOMAIN done.st.active_kernels) \cup {session})
       IN drawn' = [k \in keep |-> count[k]]

\* no library call made yet
NoInput == [kind |-> "none"]
NoCall == [op |-> "none"]
NoAgent == None

\* ------------------------------------------------------------------ requests

Init ==
    /\ executors = {}
    /\ executor_type = "env"
    /\ input = NoInput
    /\ call = NoCall
    /\ agent = NoAgent
    /\ initialized = FALSE
    /\ active_kernels = EmptyMap
    /\ kernel_counter = 0
    /\ workflow_iterator = Unbound
    /\ final_result = None
    /\ current_kernel_id = None
    /\ response = [op |-> "none", kernel_id |-> None, session |-> None,
                   params |-> None, status |-> 200, output |-> NoOutput]
    /\ drawn = EmptyMap

\* routes.call_workflow: get_executor_wrapper creates the wrapper on first
\* use, then execute(..., step_by_step=True)
call_workflow(m, sfx, initOk, runOk) ==
    /\ executors' = executors \cup {"agent"}
    /\ Apply("start", None, KernelId(kernel_counter, sfx), Params(m),
             execute(State, Params(m), TRUE, None, sfx, initOk, runOk))

\* routes.continue_execution: find the owner, re-assert the stored tuple
continue_execution(kid, initOk, runOk) ==
    /\ UNCHANGED executors
    /\ IF executors # {} /\ kid \in DOMAIN active_kernels
       THEN Apply("continue", kid, kid, active_kernels[kid],
                  execute(State, active_kernels[kid], FALSE, kid, 1,
                          initOk, runOk))
       ELSE Apply("continue", kid, kid, None, Done(State, 404, NoOutput))

\* a caller of AsyncExecutor.execute with a kernel_id and its own tuple, as
\* the executor's tests call it
execute_continue(kid, p, initOk, runOk) ==
    /\ executors # {}
    /\ UNCHANGED executors
    /\ Apply("continue", kid, kid, p,
             execute(State, p, TRUE, kid, 1, initOk, runOk))

\* routes.cancel_execution: asks every loaded wrapper to cancel_kernel; the
\* wrapper class has no such method, so the first wrapper asked raises
\* AttributeError (an unhandled server error); with no wrapper loaded the
\* loop body never runs and the route answers 404.
cancel_execution(kid) ==
    /\ UNCHANGED executors
    /\ IF executors # {}
       THEN Apply("cancel", kid, kid, None, Done(State, 500, NoOutput))
       ELSE Apply("cancel", kid, kid, None, Done(State, 404, NoOutput))

\* routes.call_tool: execute(..., "tools", tool_name, ...)
call_tool(t, initOk, runOk) ==
    /\ executors' = executors \cup {"agent"}
    /\ Apply("tool", None, None, Params(t),
             execute_single(executor_type, State, "tools", Params(t), 1,
                            initOk, runOk))

\* AsyncExecutor.execute(..., "workflows", name, ...) without step_by_step, as
\* the executor's tests call it
execute_workflow(m, sfx, initOk, runOk) ==
    /\ executors' = executors \cup {"agent"}
    /\ Apply("run", None, None, Params(m),
             execute_single(executor_type, State, "workflows", Params(m), sfx,
                            initOk, runOk))

\* kernel ids a caller may present: the ids of the active sessions and of the
\* last request, and one id that was never issued
UnknownId == KernelId(MaxCounter, 1)
RequestIds == (DOMAIN drawn) \cup {UnknownId}

\* the outcomes the environment can produce for the interpreter's start-up
\* (only drawn when the interpreter is down) and for the script exchange
InitOutcomes == IF initialized THEN {TRUE} ELSE BOOLEAN
RunOutcomes == BOOLEAN

\* the tuples a direct caller presents for kid: every one is turned away
\* before a script is shipped (a caller presenting the stored tuple is
\* continue_execution)
CallerParams(kid) ==
    IF kid \in DOMAIN active_kernels
    THEN Differing(active_kernels[kid])
    ELSE {Params("steps")}

Next ==
    \/ \E m \in Methods, sfx \in Suffixes,
          initOk \in InitOutcomes, runOk \in RunOutcomes :
          kernel_counter < MaxCounter /\ call_workflow(m, sfx, initOk, runOk)
    \/ \E kid \in RequestIds, initOk \in InitOutcomes, runOk \in RunOutcomes :
          continue_execution(kid, initOk, runOk)
    \/ \E kid \in RequestIds, initOk \in InitOutcomes :
          \E p \in CallerParams(kid) : execute_continue(kid, p, initOk, TRUE)
    \/ \E kid \in RequestIds : cancel_execution(kid)

Spec == Init /\ [][Next]_vars

\* The counter's wrap-around: step-by-step starts only, the interpreter and
\* every exchange succeeding, while the active map stays within MaxActiveWrap
WrapMethods == {"steps", "okfirst"}

NextWrap ==
    \E m \in WrapMethods, sfx \in Suffixes :
        /\ call_workflow(m, sfx, TRUE, TRUE)
        /\ Cardinality(DOMAIN active_kernels') <= MaxActiveWrap

SpecWrap == Init /\ [][NextWrap]_vars

\* Single-shot requests next to step-by-step sessions, on an executor of
\* either type.  Starts are accepted while the counter is below
\* MaxSingleCounter; a step-by-step request reaches execute() on the "env"
\* executor only, and a session is continued while it has been given fewer
\* than MaxDrawn responses (a run to completion rebinds the generator the
\* session draws from, so a session need never end).
InitTyped ==
    /\ executors = {}
    /\ executor_type \in {"env", "invalid"}
    /\ input = NoInput
    /\ call = NoCall
    /\ agent = NoAgent
    /\ initialized = FALSE
    /\ active_kernels = EmptyMap
    /\ kernel_counter = 0
    /\ workflow_iterator = Unbound
    /\ final_result = None
    /\ current_kernel_id = None
    /\ response = [op |-> "none", kernel_id |-> None, session |-> None,
                   params |-> None, status |-> 200, output |-> NoOutput]
    /\ drawn = EmptyMap

NextSingle ==
    \/ \E t \in Tools, initOk \in InitOutcomes, runOk \in RunOutcomes :
          call_tool(t, initOk, runOk)
    \/ \E m \in DrainMethods, sfx \in Suffixes,
          initOk \in InitOutcomes, runOk \in RunOutcomes :
          execute_workflow(m, sfx, initOk, runOk)
    \/ \E m \in Methods, sfx \in Suffixes, initOk \in InitOutcomes :
          /\ executor_type = "env"
          /\ kernel_counter < MaxSingleCounter
          /\ call_workflow(m, sfx, initOk, TRUE)
    \/ \E kid \in DOMAIN drawn, runOk \in RunOutcomes :
          drawn[kid] < MaxDrawn /\ continue_execution(kid, TRUE, runOk)

SpecSingle == InitTyped /\ [][NextSingle]_vars

\* ------------------------------------------------------------------ library

\* the executor side, idle, while the library is exercised
ExecutorIdle ==
    /\ executors = {}
    /\ executor_type = "env"
    /\ initialized = FALSE
    /\ active_kernels = EmptyMap
    /\ kernel_counter = 0
    /\ workflow_iterator = Unbound
    /\ final_result = None
    /\ current_kernel_id = None
    /\ response = [op |-> "none", kernel_id |-> None, session |-> None,
                   params |-> None, status |-> 200, output |-> NoOutput]
    /\ drawn = EmptyMap

ExecutorUnchanged ==
    UNCHANGED <<executors, executor_type, initialized, active_kernels,
                kernel_counter, workflow_iterator, final_result,
                current_kernel_id, response, drawn>>

\* sequences over S of length at most n
SeqsUpTo(S, n) == UNION {[1..k -> S] : k \in 0..n}

\* The arguments a tool is called with: plain values, ok Results (one of
\* them holding a Result), err Results
Names == <<"x", "y", "z">>
PlainArgs == {Str(Names[i]) : i \in 1..NumVals}
OkArgs == {Result(v, None, None, None) : v \in PlainArgs}
ErrArgs == {Result(None, Exc(e), None, None) : e \in {"e1", "e2"}}
ArgValues ==
    PlainArgs \cup OkArgs \cup {Result(r, None, None, None) : r \in OkArgs}
        \cup ErrArgs
KwargsOf(keys) ==
    {kw \in [1..Len(keys) -> Keys \X (PlainArgs \cup OkArgs \cup ErrArgs)] :
        \A i \in 1..Len(keys) : kw[i][1] = keys[i]}
ToolInputs ==
    {[kind |-> "tool", func |-> f, args |-> args, kwargs |-> kw] :
        f \in Funcs, args \in SeqsUpTo(ArgValues, MaxArgs),
        kw \in UNION {KwargsOf(keys) :
                         keys \in {<<>>, <<"a">>, <<"b">>, <<"a", "b">>,
                                   <<"b", "a">>}}}

InitTool ==
    /\ ExecutorIdle
    /\ input \in ToolInputs
    /\ call = NoCall
    /\ agent = NoAgent

\* a call of the tool input.func of the agent
call_wrapper ==
    /\ call = NoCall
    /\ call' = [op |-> "tool",
                ended |-> wrapper(NewAgent, input.func, input.args,
                                 input.kwargs)]
    /\ UNCHANGED <<input, agent>>
    /\ ExecutorUnchanged

SpecTool == InitTool /\ [][call_wrapper]_vars

\* The Results the algebra is exercised on: what the tools of the helper
\* agent return (success_tool(), error_tool(), concat_tool(v, "x") and a
\* concat_tool() that does not bind), the Result of a tool that returned
\* None (agent.py:120), and every combination of two of them
BaseCalls ==
    {<<"success_tool", <<>>>>, <<"error_tool", <<>>>>,
     <<"concat_tool", <<>>>>}
        \cup {<<"concat_tool", <<v, Str(Names[1])>>>> : v \in PlainArgs}
BaseResults ==
    {wrapper(NewAgent, c[1], c[2], <<>>).outcome.val : c \in BaseCalls}
        \cup {Result(None, None, None, None)}
ResultInputs ==
    BaseResults \cup {Result_or(x, y) : x \in BaseResults, y \in BaseResults}

InitResult ==
    /\ ExecutorIdle
    /\ input \in {[kind |-> "results", a |-> a, b |-> b, c |-> c] :
                     a \in ResultInputs, b \in ResultInputs,
                     c \in ResultInputs}
    /\ call = NoCall
    /\ agent = NoAgent

\* a | b
combine ==
    /\ call = NoCall
    /\ call' = [op |-> "combine", out |-> Result_or(input.a, input.b),
                left |-> None, right |-> None]
    /\ UNCHANGED <<input, agent>>
    /\ ExecutorUnchanged

\* (a | b) | c and a | (b | c)
associate ==
    /\ call = NoCall
    /\ call' = [op |-> "assoc", out |-> None,
                left |-> Result_or(Result_or(input.a, input.b), input.c),
                right |-> Result_or(input.a, Result_or(input.b, input.c))]
    /\ UNCHANGED <<input, agent>>
    /\ ExecutorUnchanged

SpecResult == InitResult /\ [][combine \/ associate]_vars

\* ---------------------------------------------------------------- workflows

\* The syntax tree of a workflow body, as far as the transformer and the
\* serializer look at it: a sequence of statements (ast.Assign with one Name
\* target, ast.Expr, ast.Return) over the expressions ast.Name, ast.Constant,
\* ast.Call of a method on self, ast.BinOp with ast.BitOr, and ast.Yield.
Name(id) == [e |-> "Name", id |-> id]
Constant(value) == [e |-> "Constant", value |-> value]
Call(func, args) == [e |-> "Call", func |-> func, args |-> args]
BitOr(left, right) == [e |-> "BitOr", left |-> left, right |-> right]
Yield(value) == [e |-> "Yield", value |-> value]
Assign(target, value) == [s |-> "Assign", target |-> target, value |-> value]
ExprStmt(value) == [s |-> "Expr", value |-> value]
Return(value) == [s |-> "Return", value |-> value]

\* WorkflowTransformer.is_tool_call (agent.py:177-188)
is_tool_call(node, tools) == node.e = "Call" /\ node.func \in tools

\* WorkflowTransformer.visit_Assign (agent.py:141-163)
visit_Assign(node, tools) ==
    IF node.value.e = "BitOr" \/ is_tool_call(node.value, tools)
    THEN <<node, ExprStmt(Yield(Name(node.target)))>>
    ELSE <<node>>

\* WorkflowTransformer.visit_Return (agent.py:165-175)
visit_Return(node, tools) ==
    IF is_tool_call(node.value, tools)
    THEN <<ExprStmt(Yield(node.value)), node>>
    ELSE <<node>>

\* WorkflowTransformer.visit on a function body
RECURSIVE WorkflowTransformer(_, _)
WorkflowTransformer(body, tools) ==
    IF body = <<>>
    THEN <<>>
    ELSE LET node == Head(body)
             new == CASE node.s = "Assign" -> visit_Assign(node, tools)
                      [] node.s = "Return" -> visit_Return(node, tools)
                      [] OTHER -> <<node>>
         IN new \o WorkflowTransformer(Tail(body), tools)

\* normal_function of the helper agent (tests/test_helpers.py:23-26), a
\* method that is not a tool
normal_function(text) ==
    [t |-> "fstr",
     v |-> <<Str("normal"),
             IF isinstance(text, "Result") THEN text.value ELSE text>>]

\* Python's evaluation of an expression in the frame of a workflow: env
\* holds the local variables, self is the agent instance.  The arguments of
\* a call are evaluated left to right as the list ArgList(args).
ArgList(args) == [e |-> "ArgList", args |-> args]
RECURSIVE Eval(_, _, _)
\* the value of a list whose first element gave `first` and whose others
\* gave `rest`
EvalCons(first, rest) ==
    IF rest.raised
    THEN rest
    ELSE After(rest.self, Returned(<<first.val>> \o rest.val))
EvalRest(args, env, first) ==
    IF first.raised
    THEN first
    ELSE EvalCons(first, Eval(ArgList(Tail(args)), env, first.self))
\* self.<func>(*a.val): a tool goes through its wrapper, normal_function is
\* called as it is, any other name is not an attribute of the agent
EvalWrapped(ended) == After(ended.self, ended.outcome)
EvalCall(func, a) ==
    IF a.raised
    THEN a
    ELSE IF func \in AgentTools
    THEN EvalWrapped(wrapper(a.self, func, a.val, <<>>))
    ELSE IF func # "normal_function"
    THEN After(a.self, Raised([t |-> "AttributeError", v |-> func]))
    ELSE IF Len(a.val) # 1
    THEN After(a.self, Raised([t |-> "TypeError", v |-> func]))
    ELSE After(a.self, Returned(normal_function(a.val[1])))
\* l | r
EvalOr(l, r) ==
    IF r.raised
    THEN r
    ELSE IF ~isinstance(l.val, "Result")
    THEN After(r.self, Raised([t |-> "TypeError", v |-> "|"]))
    ELSE IF ~isinstance(r.val, "Result")
    THEN After(r.self, Raised([t |-> "AttributeError",
                               v |-> "combined_values"]))
    ELSE After(r.self, Returned(Result_or(l.val, r.val)))
EvalRight(right, env, l) ==
    IF l.raised THEN l ELSE EvalOr(l, Eval(right, env, l.self))
Eval(node, env, self) ==
    CASE node.e = "Name" ->
           IF node.id \in DOMAIN env
           THEN After(self, Returned(env[node.id]))
           ELSE After(self, Raised([t |-> "NameError", v |-> node.id]))
      [] node.e = "Constant" -> After(self, Returned(node.value))
      [] node.e = "ArgList" ->
           IF node.args = <<>>
           THEN After(self, Returned(<<>>))
           ELSE EvalRest(node.args, env, Eval(Head(node.args), env, self))
      [] node.e = "Call" ->
           EvalCall(node.func, Eval(ArgList(node.args), env, self))
      [] node.e = "BitOr" ->
           EvalRight(node.right, env, Eval(node.left, env, self))

\* how a run of a function body ended: what it yielded on the way, what it
\* returned or raised, and the instance afterwards
Stopped(yields, end) ==
    [yields |-> yields, raised |-> end.raised, val |-> end.val,
     self |-> end.self]

\* Python runs the statements of a function body to the end, the generator
\* being drawn until it stops
RECURSIVE RunBody(_, _, _, _)
\* the rest of the body after its first statement gave r
RunRest(body, env, yields, r) ==
    IF r.raised
    THEN Stopped(yields, r)
    ELSE CASE Head(body).s = "Assign" ->
                RunBody(Tail(body), DictSet(env, Head(body).target, r.val),
                        r.self, yields)
           [] Head(body).s = "Return" -> Stopped(yields, r)
           [] Head(body).value.e = "Yield" ->
                RunBody(Tail(body), env, r.self, Append(yields, r.val))
           [] OTHER -> RunBody(Tail(body), env, r.self, yields)
RunBody(body, env, self, yields) ==
    IF body = <<>>
    THEN Stopped(yields, After(self, Returned(None)))
    ELSE RunRest(body, env, yields,
                 Eval(IF Head(body).value.e = "Yield"
                      THEN Head(body).value.value
                      ELSE Head(body).value, env, self))

\* the call of a function whose body is `body`, without arguments
CallBody(body, self) == RunBody(body, EmptyMap, self, <<>>)

\* ------------------------------------------------------------ workflow graph

\* Source text, as far as the serializer compares and re-emits it: the text
\* of an identifier, or the repr() of a constant.  Parse is ast.parse on it.
IdText(id) == [text |-> "id", id |-> id]
Parse(name) ==
    IF name.text = "id" THEN Name(name.id) ELSE Constant(name.value)
\* name.startswith('"') or name.startswith("'"): the repr of a str
startswith_quote(name) == name.text = "repr" /\ name.value.t = "str"

\* Port (workflow_serializer.py:6-8); nodes, edges and graphs are records
\* with the fields of Node, Edge and WorkflowGraph (11-27).  A node id
\* node_<k> is the number k, a port id <node_id>:<side>:<i> is the triple,
\* so that id.split(':')[0] is its first component.
Port(id, name) == [id |-> id, name |-> name]

\* DependencyAnalyzer (workflow_serializer.py:182-246): the calls of methods
\* on self that are the value of an assignment, an expression statement or
\* a return, in source order
RECURSIVE DependencyAnalyzer(_)
DependencyAnalyzer(body) ==
    IF body = <<>>
    THEN <<>>
    ELSE LET node == Head(body)
             found ==
                 IF node.value.e # "Call"
                 THEN <<>>
                 ELSE <<[func_name |-> node.value.func,
                         args |-> node.value.args,
                         target |-> IF node.s = "Assign"
                                    THEN IdText(node.target)
                                    ELSE None]>>
         IN found \o DependencyAnalyzer(Tail(body))

\* the input ports of a call (workflow_serializer.py:54-60): one for every
\* argument that is a name or a constant, numbered by argument position
RECURSIVE InputPorts(_, _, _)
InputPorts(node_id, args, i) ==
    IF i > Len(args)
    THEN <<>>
    ELSE LET arg == args[i]
             port_id == <<node_id, "input", i - 1>>
             here == CASE arg.e = "Name" -> <<Port(port_id, IdText(arg.id))>>
                       [] arg.e = "Constant" ->
                            <<Port(port_id, [text |-> "repr", value |-> arg.value])>>
                       [] OTHER -> <<>>
         IN here \o InputPorts(node_id, args, i + 1)

\* the edges into one node (workflow_serializer.py:77-91): for every input
\* port that is not a literal, one edge from every output port of an
\* earlier node that carries the same name; the edge ids are given later
RECURSIVE EdgesInto(_, _, _, _, _)
EdgesInto(inputs, p, others, j, o) ==
    IF p > Len(inputs)
    THEN <<>>
    ELSE IF startswith_quote(inputs[p].name) \/ j > Len(others)
    THEN EdgesInto(inputs, p + 1, others, 1, 1)
    ELSE IF o > Len(others[j].outputs)
    THEN EdgesInto(inputs, p, others, j + 1, 1)
    ELSE LET output_port == others[j].outputs[o]
             here == IF output_port.name = inputs[p].name
                     THEN <<[source |-> output_port.id,
                             target |-> inputs[p].id]>>
                     ELSE <<>>
         IN here \o EdgesInto(inputs, p, others, j, o + 1)

\* WorkflowSerializer.serialize_workflow (workflow_serializer.py:33-93)
\* NumberedEdges with the ends of every new edge swapped
NumberedEdges_Reversed(edges, found) ==
    edges \o [k \in 1..Len(found) |->
                 [id |-> Len(edges) + k - 1, source |-> found[k].target,
                  target |-> found[k].source]]

NumberedEdges(edges, found) ==
    edges \o [k \in 1..Len(found) |->
                 [id |-> Len(edges) + k - 1, source |-> found[k].source,
                  target |-> found[k].target]]
NodeOf(func_call, node_counter, inputs) ==
    [id |-> node_counter, type |-> func_call.func_name, inputs |-> inputs,
     outputs |-> IF func_call.target # None
                 THEN <<Port(<<node_counter, "output", 0>>,
                             func_call.target)>>
                 ELSE <<>>,
     position |-> [x |-> 100 + (node_counter + 1) * 200, y |-> 100]]
RECURSIVE SerializeCalls(_, _, _, _)
SerializeNode(function_calls, node_counter, nodes, edges, inputs) ==
    SerializeCalls(function_calls, node_counter + 1,
                   Append(nodes, NodeOf(function_calls[node_counter + 1],
                                        node_counter, inputs)),
                   NumberedEdges(edges, EdgesInto(inputs, 1, nodes, 1, 1)))
SerializeCalls(function_calls, node_counter, nodes, edges) ==
    IF node_counter >= Len(function_calls)
    THEN [nodes |-> nodes, edges |-> edges]
    ELSE SerializeNode(function_calls, node_counter, nodes, edges,
                       InputPorts(node_counter,
                                  function_calls[node_counter + 1].args, 1))
serialize_workflow(source_code) ==
    SerializeCalls(DependencyAnalyzer(source_code), 0, <<>>, <<>>)

\* dict built by assigning in order: the last port with the id wins
RECURSIVE AllPorts(_, _, _)
AllPorts(nodes, side, i) ==
    IF i > Len(nodes)
    THEN <<>>
    ELSE (IF side = "input" THEN nodes[i].inputs ELSE nodes[i].outputs)
             \o AllPorts(nodes, side, i + 1)
LastNamed(ports, port_id) ==
    ports[CHOOSE k \in 1..Len(ports) :
              /\ ports[k].id = port_id
              /\ \A m \in (k + 1)..Len(ports) : ports[m].id # port_id].name
PortVars(graph, side, port_id) ==
    LastNamed(AllPorts(graph.nodes, side, 1), port_id)

\* dependencies (workflow_serializer.py:136-141): node id -> the ids of the
\* nodes its incoming edges start at
\* dependencies keyed by the node an edge starts at
dependencies_BySource(graph, node_id) ==
    {graph.edges[k].target[1] :
        k \in {m \in 1..Len(graph.edges) :
                  graph.edges[m].source[1] = node_id}}

dependencies(graph, node_id) ==
    {graph.edges[k].source[1] :
        k \in {m \in 1..Len(graph.edges) :
                  graph.edges[m].target[1] = node_id}}

\* the orders a set of node ids can be iterated in
Orders(S) ==
    {f \in [1..Cardinality(S) -> S] :
        \A i, j \in 1..Cardinality(S) : f[i] = f[j] => i = j}
NodeIds(graph) ==
    {graph.nodes[k].id : k \in 1..Len(graph.nodes)}
        \cup {graph.edges[k].source[1] : k \in 1..Len(graph.edges)}

\* process_node (workflow_serializer.py:147-174), called for the node ids
\* ids[i], ids[i+1], ... in turn.  st holds code_lines and processed; a node that is reached again while its own dependencies are
\* being processed recurses without end (RecursionError), a node id without
\* a node ends next() with StopIteration.  order is the order in which the
\* dependency sets are iterated.
Emitting(code_lines, processed) ==
    [raised |-> FALSE, val |-> code_lines, processed |-> processed]
Failing(st, exc) == [st EXCEPT !.raised = TRUE, !.val = exc]
CallLine(node, outputs, args) ==
    IF node.outputs # <<>>
    THEN Assign(outputs.id, Call(node.type, args))
    ELSE ExprStmt(Call(node.type, args))
CodeLine(graph, node) ==
    CallLine(node,
             IF node.outputs # <<>>
             THEN PortVars(graph, "output", node.outputs[1].id)
             ELSE None,
             [k \in 1..Len(node.inputs) |->
                 Parse(IF startswith_quote(node.inputs[k].name)
                       THEN node.inputs[k].name
                       ELSE PortVars(graph, "input", node.inputs[k].id))])
FirstNode(graph, node_id) ==
    graph.nodes[CHOOSE k \in 1..Len(graph.nodes) :
                    /\ graph.nodes[k].id = node_id
                    /\ \A m \in 1..(k - 1) : graph.nodes[m].id # node_id]
Emit(graph, node_id, st1) ==
    IF st1.raised
    THEN st1
    ELSE Emitting(Append(st1.val, CodeLine(graph, FirstNode(graph, node_id))),
                  st1.processed \cup {node_id})
RECURSIVE process_nodes(_, _, _, _, _, _)
process_node(graph, order, node_id, st, stack) ==
    IF node_id \in st.processed
    THEN st
    ELSE IF node_id \in stack
    THEN Failing(st, [t |-> "RecursionError", v |-> "process_node"])
    ELSE IF \A k \in 1..Len(graph.nodes) : graph.nodes[k].id # node_id
    THEN Failing(st, [t |-> "StopIteration", v |-> "next"])
    ELSE Emit(graph, node_id,
              process_nodes(graph, order,
                            SelectSeq(order,
                                LAMBDA d :
                                    d \in dependencies(graph, node_id)),
                            1, st, stack \cup {node_id}))
process_nodes(graph, order, ids, i, st, stack) ==
    IF i > Len(ids) \/ st.raised
    THEN st
    ELSE process_nodes(graph, order, ids, i + 1,
                       process_node(graph, order, ids[i], st, stack), stack)

\* WorkflowSerializer.deserialize_workflow (workflow_serializer.py:119-180);
\* the code it returns is given as the statements it parses to
deserialize_workflow(graph, order) ==
    process_nodes(graph, order,
                  [k \in 1..Len(graph.nodes) |-> graph.nodes[k].id], 1,
                  Emitting(<<>>, {}), {})

\* The workflows the agent is exercised with: bodies of at most MaxStmts
\* statements of the kinds the repository's workflows are written in
\* (tests/test_helpers.py:28-44, tests/test_workflow_serializer.py:16-21).
WorkflowBodies ==
    SeqsUpTo(
    {Assign("a", Call("success_tool", <<>>)),
     Assign("a", Call("counter_tool", <<>>)),
     Assign("b", Call("concat_tool", <<Name("a"), Constant(Str("test"))>>)),
     Assign("b", Call("error_tool", <<>>)),
     Assign("b", Call("normal_function", <<Name("a")>>)),
     Assign("a", BitOr(Name("a"), Name("b"))),
     ExprStmt(Call("success_tool", <<>>)),
     Return(Call("counter_tool", <<>>)),
     Return(Call("concat_tool", <<Name("a"), Name("b")>>)),
     Return(Name("a"))},
    MaxStmts)
WorkflowName == "workflow"

\* Agent.__init__ (agent.py:19-40) on a class with one workflow method: the
\* registry holds the decorated method, the sources hold its source text
AgentWith(body) ==
    [self |-> NewAgent,
     workflows |-> DictSet(EmptyMap, WorkflowName, [kind |-> "method"]),
     workflow_sources |-> DictSet(EmptyMap, WorkflowName, body)]

\* Agent.workflow.wrapper (agent.py:262-294): the source on record is
\* transformed and compiled at every call, and the new function is called
workflow_wrapper(ag, name) ==
    CallBody(WorkflowTransformer(ag.workflow_sources[name], AgentTools),
             ag.self)

\* Agent.get_workflow_graph (agent.py:190-194)
get_workflow_graph(ag, workflow_name) ==
    IF workflow_name \notin DOMAIN ag.workflow_sources
    THEN None
    ELSE serialize_workflow(ag.workflow_sources[workflow_name])

\* Agent.update_workflow_from_graph (agent.py:196-247): how the call ends
\* and the agent it leaves behind
Updated(ag, end) == [raised |-> end.raised, val |-> end.val, agent |-> ag]
\* the source is stored (agent.py:227) before the code is executed in the
\* globals of the registry entry (agent.py:238): an entry that an earlier
\* update bound as a functools.partial has no __globals__
Install(ag, workflow_name, transformed_source) ==
    IF ag.workflows[workflow_name].kind = "compiled"
    THEN Updated([ag EXCEPT
                     !.workflow_sources =
                         DictSet(@, workflow_name, transformed_source)],
                 Raised([t |-> "AttributeError", v |-> "__globals__"]))
    ELSE Updated([ag EXCEPT
                     !.workflow_sources =
                         DictSet(@, workflow_name, transformed_source),
                     !.workflows =
                         DictSet(@, workflow_name,
                                 [kind |-> "compiled",
                                  body |-> transformed_source])],
                 Returned(None))
Rebuild(ag, workflow_name, code_body) ==
    IF code_body.raised
    THEN Updated(ag, Raised(code_body.val))
    ELSE IF code_body.val = <<>>
    THEN Updated(ag, Raised([t |-> "SyntaxError", v |-> "def"]))
    ELSE Install(ag, workflow_name,
                 WorkflowTransformer(code_body.val, AgentTools))
\* update_workflow_from_graph without the check of the node types
update_workflow_from_graph_Unvalidated(ag, workflow_name, graph, order) ==
    IF workflow_name \notin DOMAIN ag.workflows
    THEN Updated(ag, Raised([t |-> "ValueError", v |-> workflow_name]))
    ELSE Rebuild(ag, workflow_name, deserialize_workflow(graph, order))

update_workflow_from_graph(ag, workflow_name, graph, order) ==
    IF workflow_name \notin DOMAIN ag.workflows
    THEN Updated(ag, Raised([t |-> "ValueError", v |-> workflow_name]))
    ELSE IF \E k \in 1..Len(graph.nodes) :
                graph.nodes[k].type \notin AgentTools
    THEN Updated(ag, Raised([t |-> "DeserializationError",
                             v |-> "tools",
                             missing_tools |->
                                 SelectSeq([k \in 1..Len(graph.nodes) |->
                                               graph.nodes[k].type],
                                           LAMBDA type :
                                               type \notin AgentTools)]))
    ELSE Rebuild(ag, workflow_name, deserialize_workflow(graph, order))

\* a call of the registry entry agent._workflows[name]
registry_call(ag, name) ==
    IF ag.workflows[name].kind = "method"
    THEN workflow_wrapper(ag, name)
    ELSE CallBody(ag.workflows[name].body, ag.self)

InitWorkflow ==
    /\ ExecutorIdle
    /\ input \in {[kind |-> "workflow", body |-> body] :
                     body \in WorkflowBodies}
    /\ call = NoCall
    /\ agent = AgentWith(input.body)

\* the workflow is called, as the method agent.workflow() or as the registry
\* entry agent._workflows['workflow'](), and iterated to its end
Iterated(via, run) ==
    /\ call' = [op |-> "iterate", via |-> via, before |-> agent,
                yields |-> run.yields, raised |-> run.raised,
                val |-> run.val]
    /\ agent' = [agent EXCEPT !.self = run.self]
iterate(via) ==
    /\ agent # NoAgent
    /\ agent.self.n < MaxCount
    /\ Iterated(via, IF via = "method"
                     THEN workflow_wrapper(agent, WorkflowName)
                     ELSE registry_call(agent, WorkflowName))
    /\ UNCHANGED input
    /\ ExecutorUnchanged

\* agent.get_workflow_graph('workflow')
fetch_graph ==
    /\ agent # NoAgent
    /\ call' = [op |-> "graph",
                graph |-> get_workflow_graph(agent, WorkflowName)]
    /\ UNCHANGED <<input, agent>>
    /\ ExecutorUnchanged

\* agent.update_workflow_from_graph('workflow', graph) with the graph that
\* was fetched, unedited
UpdateEnded(end) ==
    /\ call' = [op |-> "update", graph |-> call.graph, before |-> agent,
                raised |-> end.raised, val |-> end.val]
    /\ agent' = end.agent
update_unedited(order) ==
    /\ agent # NoAgent
    /\ call.op = "graph"
    /\ \A id \in NodeIds(call.graph) : \E k \in DOMAIN order : order[k] = id
    /\ UpdateEnded(update_workflow_from_graph(agent, WorkflowName,
                                              call.graph, order))
    /\ UNCHANGED input
    /\ ExecutorUnchanged

NextWorkflow ==
    \/ \E via \in {"method", "registry"} : iterate(via)
    \/ fetch_graph
    \/ \E order \in Orders(0..(MaxStmts - 1)) \cup {<<>>} :
           update_unedited(order)

SpecWorkflow == InitWorkflow /\ [][NextWorkflow]_vars

\* The workflows whose graphs are edited: bodies of at most MaxStmts
\* statements of the kinds tests/test_workflow_serializer.py:16-21 uses, a
\* tool call assigned, a tool call on a result and a literal, a bare tool
\* call and a returned tool call on two results
GraphBodies ==
    SeqsUpTo(
    {Assign("a", Call("success_tool", <<>>)),
     Assign("b", Call("concat_tool", <<Name("a"), Constant(Str("test"))>>)),
     ExprStmt(Call("success_tool", <<>>)),
     Return(Call("concat_tool", <<Name("a"), Name("b")>>))},
    MaxStmts)

\* The orders the dependency sets of a graph can be iterated in.  Only the
\* ids that sit in a set of two or more matter: one order of the other ids
\* is followed by every order of those.
DepOrders(graph) ==
    LET ids == NodeIds(graph)
        many == UNION {dependencies(graph, id) :
                          id \in {n \in 0..Len(graph.nodes) :
                                     Cardinality(dependencies(graph, n)) > 1}}
        rest == CHOOSE f \in Orders(ids \ many) : TRUE
    IN {rest \o f : f \in Orders(many)}

InitGraph ==
    /\ ExecutorIdle
    /\ input \in {[kind |-> "workflow", body |-> body] :
                     body \in GraphBodies}
    /\ call = NoCall
    /\ agent = AgentWith(input.body)

\* the client edits the graph it fetched (tests/test_workflow_serializer.py:
\* 79-99 builds the graph it passes back by hand): the node list is put in
\* another order
permute_nodes(perm) ==
    /\ call.op = "graph"
    /\ agent.workflows[WorkflowName].kind = "method"
    /\ Len(perm) = Len(call.graph.nodes)
    /\ call' = [op |-> "edit",
                graph |-> [call.graph EXCEPT
                              !.nodes = [k \in 1..Len(perm) |->
                                            call.graph.nodes[perm[k]]]]]
    /\ UNCHANGED <<input, agent>>
    /\ ExecutorUnchanged

\* the client adds an edge from node i to node j; either end may name a node
\* the graph does not have
add_edge(i, j) ==
    /\ call.op = "graph"
    /\ agent.workflows[WorkflowName].kind = "method"
    /\ call' = [op |-> "edit",
                graph |-> [call.graph EXCEPT
                              !.edges = Append(@,
                                  [id |-> Len(call.graph.edges),
                                   source |-> <<i, "output", 0>>,
                                   target |-> <<j, "input", 0>>])]]
    /\ UNCHANGED <<input, agent>>
    /\ ExecutorUnchanged

\* WorkflowSerializer.deserialize_workflow(graph) on the graph at hand
deserialize ==
    /\ call.op \in {"graph", "edit"}
    /\ \E order \in DepOrders(call.graph) :
           call' = [op |-> "deserialize", graph |-> call.graph,
                    code |-> deserialize_workflow(call.graph, order)]
    /\ UNCHANGED <<input, agent>>
    /\ ExecutorUnchanged

\* agent.update_workflow_from_graph('workflow', graph) with the edited graph
update_edited ==
    /\ call.op = "edit"
    /\ \E order \in DepOrders(call.graph) :
           UpdateEnded(update_workflow_from_graph(agent, WorkflowName,
                                                  call.graph, order))
    /\ UNCHANGED input
    /\ ExecutorUnchanged

NextGraph ==
    \/ fetch_graph
    \/ \E n \in 0..MaxStmts : \E perm \in Orders(1..n) : permute_nodes(perm)
    \/ \E i, j \in 0..MaxStmts : add_edge(i, j)
    \/ deserialize
    \/ update_edited

SpecGraph == InitGraph /\ [][NextGraph]_vars

\* ------------------------------------------------------------------ claims

\* the non-null kernel ids of the active map
ActiveIds == (DOMAIN active_kernels) \ {None}

\* a response that carries an error or a null kernel_id
TerminatingOutput(out) ==
    \/ "error" \in out.keys
    \/ "kernel_id" \in out.keys /\ out.kernel_id = None

\* the output hands the element e to the caller
Returns(out, e) ==
    IF e.kind = "err"
    THEN "error" \in out.keys /\ out.error = e.val
    ELSE "result" \in out.keys /\ out.result = e.val

\* the element a returned value was taken from
ElementOf(v) == WorkflowBody(v[1])[v[2]]

NoErrElement(body) == \A j \in 1..Len(body) : body[j].kind # "err"

\* C1: a kernel_id in the active set stays there on every step that is not a
\* terminating continue (a returned output with an error or a null
\* kernel_id) or a successful cancel of that id, and is absent from the
\* active set after such a step.
C1_KernelLifecycle ==
    [][\A k \in ActiveIds :
          LET ends == /\ response'.session = k
                      /\ response'.status = 200
                      /\ \/ /\ response'.op = "continue"
                            /\ TerminatingOutput(response'.output)
                         \/ response'.op = "cancel"
          IN IF ends
             THEN k \notin DOMAIN active_kernels'
             ELSE k \in DOMAIN active_kernels']_vars

\* C2: the kernel_id a step-by-step start returns is not a key of the active
\* map at the time of the start, so the start overwrites no stored entry.
C2_NoReuseWhileActive ==
    [][(/\ response'.op = "start"
        /\ response'.status = 200
        /\ "kernel_id" \in response'.output.keys
        /\ response'.output.kernel_id # None)
       => response'.output.kernel_id \notin DOMAIN active_kernels]_vars

\* C3: for a workflow of n elements (none of them an err), the i-th response
\* of its session (the start is the first) returns element i, the iterator
\* then holds exactly the elements after i, every response before the n-th
\* carries the session's kernel_id, and the n-th carries a null kernel_id
\* with the kernel absent from the active set.
C3_ElementsInOrder ==
    (/\ response.op \in {"start", "continue"}
     /\ response.status = 200
     /\ NoErrElement(WorkflowBody(response.params[3])))
    => LET k == response.session
           body == WorkflowBody(response.params[3])
           n == Len(body)
           i == drawn[k]
       IN /\ i <= n
          /\ Returns(response.output, body[i])
          /\ workflow_iterator = Iterator(SubSeq(body, i + 1, n))
          /\ "kernel_id" \in response.output.keys
          /\ i < n => response.output.kernel_id = k
          /\ i = n => /\ response.output.kernel_id = None
                      /\ k \notin DOMAIN active_kernels

\* C4: when a continue returns the error of an err element, the kernel_id it
\* was asked for is no longer a key of the active map.
C4_ErrEndsSession ==
    (/\ response.op = "continue"
     /\ response.status = 200
     /\ "error" \in response.output.keys)
    => response.kernel_id \notin DOMAIN active_kernels

\* C5: a step that returns the value of an ok Result ends the session (null
\* kernel_id, entry removed) when the iterator is exhausted, and otherwise
\* returns the session's kernel_id and leaves the session in the active set.
C5_OkEndsOnlyWhenExhausted ==
    (/\ response.op \in {"start", "continue"}
     /\ response.status = 200
     /\ "result" \in response.output.keys
     /\ response.output.result # None
     /\ ElementOf(response.output.result).kind = "ok")
    => IF workflow_iterator.rest = <<>>
       THEN /\ response.output.kernel_id = None
            /\ response.session \notin DOMAIN active_kernels
       ELSE /\ response.output.kernel_id = response.session
            /\ response.session \in DOMAIN active_kernels

\* C6: while another session is active, a continue of session k returns the
\* element of the workflow started as k at k's own position.
C6_SessionsIndependent ==
    (/\ response.op = "continue"
     /\ response.status = 200
     /\ ActiveIds \ {response.session} # {})
    => LET body == WorkflowBody(response.params[3])
           i == drawn[response.session]
       IN /\ i <= Len(body)
          /\ Returns(response.output, body[i])

\* C7: a continue whose tuple differs from the stored one is rejected with
\* status 400 and draws no element.
C7_MismatchRejected ==
    [][(/\ response'.op = "continue"
        /\ response'.kernel_id \in DOMAIN active_kernels
        /\ response'.params # None
        /\ ParamsMismatch(active_kernels[response'.kernel_id],
                          response'.params))
       => /\ response'.status = 400
          /\ workflow_iterator' = workflow_iterator]_vars

\* C8: an executor error (400 or 500) raised by a continue of an active
\* session removes the session's entry; a 500 also leaves the interpreter
\* shut down.
C8_ErrorsTearDownSession ==
    [][(/\ response'.op = "continue"
        /\ response'.kernel_id \in DOMAIN active_kernels
        /\ response'.status \in {400, 500})
       => /\ response'.kernel_id \notin DOMAIN active_kernels'
          /\ response'.status = 500 => ~initialized']_vars

\* C9: a cancel of an active kernel_id succeeds, removes exactly that entry
\* and leaves the interpreter alive and its namespace alone; a cancel that
\* follows a successful cancel of the same kernel_id answers 404.
C9_CancelRemovesSession ==
    [][response'.op = "cancel"
       => /\ response'.kernel_id \in DOMAIN active_kernels
             => /\ response'.status = 200
                /\ active_kernels' =
                       DictDel(active_kernels, response'.kernel_id)
                /\ initialized' = initialized
                /\ workflow_iterator' = workflow_iterator
          /\ (/\ response.op = "cancel"
              /\ response.status = 200
              /\ response.kernel_id = response'.kernel_id)
             => response'.status = 404]_vars

\* C10: a continue or cancel of a kernel_id that is not in the active map
\* answers 404 and changes neither the active map nor the kernel counter.
C10_UnknownKernelNotFound ==
    [][(/\ response'.op \in {"continue", "cancel"}
        /\ response'.kernel_id \notin DOMAIN active_kernels)
       => /\ response'.status = 404
          /\ active_kernels' = active_kernels
          /\ kernel_counter' = kernel_counter]_vars

\* the positions of the err Results and of the ok Results of a workflow
ErrPositions(body) == {j \in 1..Len(body) : body[j].kind = "err"}
OkPositions(body) == {j \in 1..Len(body) : body[j].kind = "ok"}
Least(S) == CHOOSE j \in S : \A i \in S : j <= i
Greatest(S) == CHOOSE j \in S : \A i \in S : i <= j

\* C11: a tool call or a workflow run without step_by_step returns an output
\* without a kernel_id and leaves the active map and the kernel counter as
\* they were, whatever the outcome of the call.
C11_SingleShotAllocatesNothing ==
    [][response'.op \in {"tool", "run"}
       => /\ "kernel_id" \notin response'.output.keys
          /\ active_kernels' = active_kernels
          /\ kernel_counter' = kernel_counter]_vars

\* a single-shot request answered while a step-by-step session is active
C11_Witness ==
    /\ response.op \in {"tool", "run"}
    /\ response.status = 200
    /\ ActiveIds # {}

\* C12: a workflow run without step_by_step returns the error of the first
\* err Result and leaves every later element in the generator; without an err
\* it returns the value of the last Result; without any Result it returns the
\* list of the yielded values in order.
C12_DrainReturns ==
    (response.op = "run" /\ response.status = 200)
    => LET body == WorkflowBody(response.params[3])
           n == Len(body)
           out == response.output
       IN IF ErrPositions(body) # {}
          THEN LET j == Least(ErrPositions(body))
               IN /\ out.keys = {"error"}
                  /\ out.error = body[j].val
                  /\ workflow_iterator = Iterator(SubSeq(body, j + 1, n))
          ELSE IF OkPositions(body) # {}
          THEN /\ out.keys = {"result"}
               /\ out.result = body[Greatest(OkPositions(body))].val
               /\ workflow_iterator = Iterator(<<>>)
          ELSE /\ out.keys = {"results"}
               /\ out.result = [j \in 1..n |-> body[j].val]
               /\ workflow_iterator = Iterator(<<>>)

\* a run of the workflow that yields Results and plain values alternately
C12_Witness ==
    /\ response.op = "run"
    /\ response.status = 200
    /\ response.params[3] = "twook"

\* C13 as stated: a request to an executor of unknown type is answered with
\* a server error (500), no interpreter is started and no kernel allocated.
C13_UnknownTypeServerError ==
    [][(executor_type = "invalid" /\ response'.op \in {"tool", "run"})
       => /\ response'.status = 500
          /\ ~initialized'
          /\ active_kernels' = active_kernels
          /\ kernel_counter' = kernel_counter]_vars

\* C13 amended: a request to an executor of unknown type is answered with a
\* bad-request error (400), no interpreter is started, the sandbox namespace
\* is not touched and no kernel is allocated.
C13_UnknownTypeBadRequest ==
    [][(executor_type = "invalid" /\ response'.op \in {"tool", "run"})
       => /\ response'.status = 400
          /\ ~initialized'
          /\ workflow_iterator' = Unbound
          /\ active_kernels' = EmptyMap
          /\ kernel_counter' = 0]_vars

\* a tool call turned away by an executor of unknown type
C13_Witness ==
    /\ executor_type = "invalid"
    /\ response.op = "tool"
    /\ response.status = 400

\* the value an ok Result stands for, and a value with an ok Result replaced
\* by it
ValueOf(r) == IF r.combined_values # None THEN r.combined_values ELSE r.value
Substituted(v) == IF isinstance(v, "Result") THEN ValueOf(v) ELSE v
IsErrArg(v) == isinstance(v, "Result") /\ Result_is_err(v)
\* the values of a call in positional-then-keyword order
InOrder(args, kwargs) ==
    args \o [i \in 1..Len(kwargs) |-> kwargs[i][2]]

\* C14: a tool called with arguments of which no Result is err calls the raw
\* callable with every Result replaced, at its own position, by its unwrapped
\* value, and returns an ok Result holding what the raw callable returned; a
\* tool called with an err Result among its arguments returns the first such
\* Result in positional-then-keyword order and does not call the raw callable.
C14_ToolUnwrapsArguments ==
    call.op = "tool"
    => LET given == InOrder(input.args, input.kwargs)
           errs == {i \in 1..Len(given) : IsErrArg(given[i])}
           ended == call.ended
       IN IF errs # {}
          THEN /\ ~ended.invoked
               /\ ended.outcome = Returned(given[Least(errs)])
          ELSE LET args1 == [i \in 1..Len(input.args) |->
                                Substituted(input.args[i])]
                   kwargs1 == [i \in 1..Len(input.kwargs) |->
                                  <<input.kwargs[i][1],
                                    Substituted(input.kwargs[i][2])>>]
                   raw == RawCall(NewAgent, input.func, args1, kwargs1)
               IN /\ ended.invoked
                  /\ ended.raw_args = args1
                  /\ ended.raw_kwargs = kwargs1
                  /\ ~raw.raised
                       => ended.outcome =
                             Returned(Result(raw.val, None, None, None))

\* C15: a tool call ends by returning, never by raising; when the raw
\* callable (or the binding of its arguments) raised, the returned Result
\* holds that exception in its error slot and nothing else.
C15_WrapperNeverRaises ==
    call.op = "tool"
    => LET ended == call.ended
       IN /\ ~ended.outcome.raised
          /\ isinstance(ended.outcome.val, "Result")
          /\ ended.invoked
               => LET raw == RawCall(NewAgent, input.func, ended.raw_args,
                                     ended.raw_kwargs)
                  IN raw.raised
                     => ended.outcome.val =
                           Result(None, raw.val, None, None)

\* error_tool was run and its ValueError came back in an err Result
C15_Witness ==
    /\ call.op = "tool"
    /\ input.func = "error_tool"
    /\ call.ended.invoked
    /\ call.ended.outcome.val = Result(None, Exc("test error"), None, None)

\* a slot is populated when it is not None
Populated(slot) == slot # None
SlotsConsistent(r) ==
    /\ ~(Populated(r.value) /\ Populated(r.combined_values))
    /\ ~(Populated(r.error) /\ Populated(r.combined_errors))
    /\ Result_is_ok(r)
          <=> (~Populated(r.error) /\ ~Populated(r.combined_errors))
    /\ Result_is_err(r) <=> ~Result_is_ok(r)

\* the Results a state holds: the operands and what the last call produced
ResultsHeld ==
    {input.a, input.b, input.c}
        \cup (IF call.op = "combine" THEN {call.out} ELSE {})
        \cup (IF call.op = "assoc" THEN {call.left, call.right} ELSE {})

\* C16: every Result returned by a tool or produced by combining such
\* Results, to any depth, has at most one value slot and at most one error
\* slot populated, and is ok exactly when no error slot is populated.
C16_SlotsConsistent ==
    input.kind = "results" => \A r \in ResultsHeld : SlotsConsistent(r)

\* a combination of three Results that holds both values and errors
C16_Witness ==
    /\ call.op = "assoc"
    /\ Populated(call.left.combined_values)
    /\ Populated(call.left.combined_errors)

\* the values and the errors a Result carries, in order
ValuePayload(r) ==
    IF Populated(r.combined_values) THEN r.combined_values
    ELSE IF Populated(r.value) THEN <<r.value>> ELSE <<>>
ErrorPayload(r) ==
    IF Populated(r.combined_errors) THEN r.combined_errors
    ELSE IF Populated(r.error) THEN <<r.error>> ELSE <<>>

\* C17: a | b holds the values of a followed by the values of b in its
\* combined values, the errors of a followed by the errors of b in its
\* combined errors, nothing in its single slots, and is ok exactly when a and
\* b are both ok.
C17_CombineConcatenates ==
    call.op = "combine"
    => /\ call.out.combined_values
             = ValuePayload(input.a) \o ValuePayload(input.b)
       /\ call.out.combined_errors
             = ErrorPayload(input.a) \o ErrorPayload(input.b)
       /\ call.out.value = None
       /\ call.out.error = None
       /\ Result_is_ok(call.out)
             <=> (Result_is_ok(input.a) /\ Result_is_ok(input.b))

\* a single-valued ok Result combined with a Result that already holds two
\* values
C17_Witness ==
    /\ call.op = "combine"
    /\ Populated(input.a.value)
    /\ Populated(input.b.combined_values)
    /\ Len(call.out.combined_values) = 3

\* C18: (a | b) | c and a | (b | c) hold the same combined values and the
\* same combined errors.
C18_CombineAssociative ==
    call.op = "assoc"
    => /\ call.left.combined_values = call.right.combined_values
       /\ call.left.combined_errors = call.right.combined_errors

\* three operands that are combinations themselves, with values and errors
C18_Witness ==
    /\ call.op = "assoc"
    /\ Populated(input.a.combined_values)
    /\ Populated(input.b.combined_errors)
    /\ Populated(input.c.combined_values)
    /\ Len(call.left.combined_values) >= 3

\* visit_Return that evaluates the returned call once
visit_Return_Once(node, tools) ==
    IF is_tool_call(node.value, tools)
    THEN <<Assign("_ret", node.value), ExprStmt(Yield(Name("_ret"))),
           Return(Name("_ret"))>>
    ELSE <<node>>

\* the transformer the documentation describes: it differs from
\* WorkflowTransformer in evaluating a returned tool call once
RECURSIVE TransformOnce(_, _)
TransformOnce(body, tools) ==
    IF body = <<>>
    THEN <<>>
    ELSE LET node == Head(body)
             new == CASE node.s = "Assign" -> visit_Assign(node, tools)
                      [] node.s = "Return" -> visit_Return_Once(node, tools)
                      [] OTHER -> <<node>>
         IN new \o TransformOnce(Tail(body), tools)

\* the transformed run `run` yields what `once` yields and ends as `plain`
YieldsAndEndsAs(run, once, plain) ==
    /\ run.yields = once.yields
    /\ run.raised = plain.raised
    /\ run.val = plain.val

\* C19: iterating a workflow yields, in source order, one Result for every
\* assignment of a tool call, for every assignment of a combination and for
\* a returned tool call, and the run ends as the untransformed body would
\* have ended: with the same return value or the same exception.
C19_IterationYieldsAndReturns ==
    (call.op = "iterate" /\ call.via = "method"
        /\ call.before.workflow_sources[WorkflowName] = input.body)
        => YieldsAndEndsAs(call,
                           CallBody(TransformOnce(input.body, AgentTools),
                                    call.before.self),
                           CallBody(input.body, call.before.self))

\* the value a run of a workflow leaves its consumer with: the last Result
\* it yielded, if any
LastYield(yields) == IF yields = <<>> THEN None ELSE yields[Len(yields)]

\* the rebuilt run `run` ends as `original` and leaves the same final value
SameFinalValue(run, original) ==
    /\ run.raised = original.raised
    /\ \/ run.val = original.val
       \/ LastYield(run.yields) = LastYield(original.yields)

\* every statement of the body is a call of a tool, assigned, bare or
\* returned, whose arguments are names and constants
ToolCallsOnly(body) ==
    \A i \in 1..Len(body) :
        /\ is_tool_call(body[i].value, AgentTools)
        /\ \A k \in 1..Len(body[i].value.args) :
               body[i].value.args[k].e \in {"Name", "Constant"}

\* C20: a workflow made of tool calls that take only names and constants,
\* rebuilt by update_workflow_from_graph from its own unedited graph, gives
\* the final value the original workflow gives: run from the same agent
\* state, the rebuilt workflow returns what the original returns, or at
\* least yields the same Result last.
C20_RoundTripKeepsFinalValue ==
    (call.op = "iterate" /\ call.via = "registry"
        /\ ToolCallsOnly(input.body)
        /\ call.before.workflows[WorkflowName].kind = "compiled"
        /\ \E order \in Orders(NodeIds(serialize_workflow(input.body))) :
               call.before.workflows =
                   update_workflow_from_graph(
                       AgentWith(input.body), WorkflowName,
                       serialize_workflow(input.body), order).agent.workflows)
        => SameFinalValue(call,
                          workflow_wrapper([AgentWith(input.body) EXCEPT
                                               !.self = call.before.self],
                                           WorkflowName))

\* C27: a step-by-step start whose response carries an error or a null
\* kernel_id leaves the active set and the kernel counter as they were, and
\* the null kernel_id is never a key of the active set.
C27_TerminatedStartAllocatesNothing ==
    [][/\ (/\ response'.op = "start"
           /\ response'.status = 200
           /\ TerminatingOutput(response'.output))
          => /\ active_kernels' = active_kernels
             /\ kernel_counter' = kernel_counter
       /\ None \notin DOMAIN active_kernels']_vars

\* C28: every kernel_id of the active set has its suspended iterator in the
\* running sandbox interpreter: while an id is active the interpreter is up
\* and the generator is bound in its namespace.
C28_ActiveIdsLiveInSandbox ==
    ActiveIds # {} => initialized /\ workflow_iterator.bound

\* C29: iterating a workflow invokes a tool once for every execution of a
\* statement that calls it, a returned tool call included: counter_tool has
\* been invoked as often as the untransformed body invokes it.
C29_ToolInvokedOncePerStatement ==
    (call.op = "iterate" /\ call.via = "method"
        /\ call.before.workflow_sources[WorkflowName] = input.body)
        => agent.self.n = CallBody(input.body, call.before.self).self.n

\* C30: after a successful update_workflow_from_graph, the method
\* agent.workflow() yields the Results the registry entry
\* agent._workflows['workflow'] yields, run from the same agent state.
C30_MethodAndRegistryAgree ==
    (call.op = "iterate" /\ call.via = "method"
        /\ call.before.workflows[WorkflowName].kind = "compiled")
        => call.yields = registry_call(call.before, WorkflowName).yields

\* the edges of the graph g that end at the input port `port`
EdgesAt(g, port) == {e \in 1..Len(g.edges) : g.edges[e].target = port.id}

\* the earlier nodes of g, before position k, whose output carries `name`
ProducersBefore(g, k, name) ==
    {j \in 1..(k - 1) :
        \E o \in 1..Len(g.nodes[j].outputs) :
            g.nodes[j].outputs[o].name = name}

\* C23: in a graph made by serialize_workflow every input port that is not
\* a literal is the target of at most one edge, and that edge starts at the
\* first earlier node whose output port carries the port's name.
C23_OneProducerPerInput ==
    call.op = "graph"
        => \A k \in 1..Len(call.graph.nodes) :
               \A p \in 1..Len(call.graph.nodes[k].inputs) :
                   LET port == call.graph.nodes[k].inputs[p]
                       first == Least(ProducersBefore(call.graph, k,
                                                      port.name))
                   IN ~startswith_quote(port.name)
                        => /\ Cardinality(EdgesAt(call.graph, port)) <= 1
                           /\ \A e \in EdgesAt(call.graph, port) :
                                  call.graph.edges[e].source[1] =
                                      call.graph.nodes[first].id

\* C24: a graph made by serialize_workflow is acyclic: every edge leaves an
\* output port of a node and enters an input port of a node emitted later,
\* and the input port it enters is not a literal.
C24_SerializedGraphAcyclic ==
    call.op = "graph"
        => \A e \in 1..Len(call.graph.edges) :
               \E i, j \in 1..Len(call.graph.nodes) :
                   /\ i < j
                   /\ \E o \in 1..Len(call.graph.nodes[i].outputs) :
                          call.graph.nodes[i].outputs[o].id =
                              call.graph.edges[e].source
                   /\ \E p \in 1..Len(call.graph.nodes[j].inputs) :
                          /\ call.graph.nodes[j].inputs[p].id =
                                 call.graph.edges[e].target
                          /\ ~startswith_quote(
                                 call.graph.nodes[j].inputs[p].name)

\* a serialized graph with an edge, and with a literal input port
C24_Witness ==
    /\ call.op = "graph"
    /\ call.graph.edges # <<>>
    /\ \E k \in 1..Len(call.graph.nodes) :
           \E p \in 1..Len(call.graph.nodes[k].inputs) :
               startswith_quote(call.graph.nodes[k].inputs[p].name)

\* the positions of the node list of g at which node id sits
NodesWithId(g, id) == {k \in 1..Len(g.nodes) : g.nodes[k].id = id}

\* both ends of every edge of g name a node of g
NoDanglingEdge(g) ==
    \A e \in 1..Len(g.edges) :
        /\ NodesWithId(g, g.edges[e].source[1]) # {}
        /\ NodesWithId(g, g.edges[e].target[1]) # {}

\* f places the nodes of g, by position in the node list, so that every edge
\* starts at a node placed before the node it ends at
PlacesSourcesFirst(g, f) ==
    \A e \in 1..Len(g.edges) :
        \A i \in NodesWithId(g, g.edges[e].source[1]) :
            \A j \in NodesWithId(g, g.edges[e].target[1]) : f[i] < f[j]

Acyclic(g) ==
    \E f \in Orders(1..Len(g.nodes)) : PlacesSourcesFirst(g, f)

\* C25: deserialize_workflow on an acyclic graph whose edges name nodes of
\* the graph returns code with exactly one statement per node, each a call
\* of the node's type, and the statement of a node comes after the
\* statements of the nodes its incoming edges start at, in whatever order
\* the node list is and in whatever order the dependency sets are iterated.
C25_OneStatementPerNodeInOrder ==
    (call.op = "deserialize" /\ NoDanglingEdge(call.graph)
        /\ Acyclic(call.graph))
        => /\ ~call.code.raised
           /\ Len(call.code.val) = Len(call.graph.nodes)
           /\ \E f \in Orders(1..Len(call.graph.nodes)) :
                  /\ PlacesSourcesFirst(call.graph, f)
                  /\ \A k \in 1..Len(call.graph.nodes) :
                         call.code.val[f[k]].value.func =
                             call.graph.nodes[k].type

\* code was made from an acyclic graph in which a node stands in the node
\* list before a node one of its incoming edges starts at
C25_Witness ==
    /\ call.op = "deserialize"
    /\ NoDanglingEdge(call.graph)
    /\ Acyclic(call.graph)
    /\ ~call.code.raised
    /\ \E e \in 1..Len(call.graph.edges) :
           \E i \in NodesWithId(call.graph, call.graph.edges[e].source[1]) :
               \E j \in NodesWithId(call.graph,
                                     call.graph.edges[e].target[1]) : j < i

\* C26: update_workflow_from_graph with a malformed graph, one with a cycle
\* among its edges or with an edge whose source or target names no node,
\* ends with a workflow-shape error (DeserializationError, or ValueError for
\* the workflow name) and leaves the registry and the stored sources as
\* they were.
C26_MalformedGraphRejected ==
    (call.op = "update"
        /\ (~NoDanglingEdge(call.graph) \/ ~Acyclic(call.graph)))
        => /\ call.raised
           /\ call.val.t \in {"DeserializationError", "ValueError"}
           /\ agent = call.before

\* C21: after update_workflow_from_graph has succeeded, the rebuilt workflow
\* in the registry, iterated to its end, yields exactly one Result for every
\* node of the graph it was built from.
C21_RebuiltYieldsOncePerNode ==
    (call.op = "update" /\ ~call.raised)
        => Len(registry_call(agent, WorkflowName).yields) =
               Len(call.graph.nodes)

\* the positions of the nodes of g whose type is not a tool of the agent
UnknownNodes(g) ==
    {k \in 1..Len(g.nodes) : g.nodes[k].type \notin AgentTools}

\* C22: update_workflow_from_graph with a graph that has a node whose type
\* is not a tool of the agent raises DeserializationError, the error names
\* exactly the types that are missing, and the registry and the stored
\* sources are what they were before the call.
C22_UnknownToolRejected ==
    (call.op = "update" /\ UnknownNodes(call.graph) # {})
        => /\ call.raised
           /\ call.val.t = "DeserializationError"
           /\ {call.val.missing_tools[k] :
                   k \in 1..Len(call.val.missing_tools)} =
                  {call.graph.nodes[k].type : k \in UnknownNodes(call.graph)}
           /\ agent = call.before

\* an update was given a graph with a node that calls normal_function,
\* which is a method of the agent but not a tool
C22_Witness ==
    /\ call.op = "update"
    /\ \E k \in 1..Len(call.graph.nodes) :
           call.graph.nodes[k].type = "normal_function"

====
